---- MODULE Spec2Model ----
(***************************************************************************)
(* The XII-OS Deep Research page (deep_research_openai.py), a Streamlit    *)
(* script.  Streamlit re-runs the whole script, top to bottom, once per    *)
(* user interaction.  Across re-runs of one browser session it keeps the   *)
(* widget values and st.session_state; everything the script rendered in   *)
(* the previous run is replaced by what the current run renders.  A        *)
(* st.button / st.download_button call returns True only in the run that   *)
(* its own click triggered.                                                *)
(***************************************************************************)
EXTENDS Integers, Sequences, FiniteSets, TLC

\* ------------------------------------------------------------------ bounds
\* Longest query the user types (characters of QueryChars).
MaxQueryLen == 1
\* Longest query of the JSON export check (characters of JsonChars).
MaxJsonLen == 2

\* ------------------------------------------------------- widget value sets
\* Python's None / an absent session-state key.
None == [absent |-> TRUE]

\* Two readings of datetime.now(), as seconds.
Instants == {1, 2}

\* Characters a query is typed from: a letter and a blank.
QueryChars == {"a", " "}

RECURSIVE SeqsUpTo(_, _)
SeqsUpTo(S, n) ==
    IF n = 0 THEN {<<>>}
    ELSE LET shorter == SeqsUpTo(S, n - 1)
         IN  shorter \cup {Append(s, c) : s \in shorter, c \in S}

Queries == SeqsUpTo(QueryChars, MaxQueryLen)

\* st.selectbox("Select AI Model", [...]): the first option is the default.
Models == {"gpt-4o", "gpt-4", "gpt-3.5-turbo"}
DefaultModel == "gpt-4o"

\* st.slider("Temperature", 0.0, 1.0, 0.7, 0.1), in tenths: the default and
\* the two ends of the range.
Temperatures == {7, 10}
DefaultTemperature == 7

\* st.slider("Max Tokens", 100, 4000, 1500, 100): the default and the maximum.
MaxTokensValues == {1500, 4000}
DefaultMaxTokens == 1500

\* st.select_slider("Search Depth", options=[...]): the first option is the
\* default.
SearchDepths == {"Basic", "Comprehensive"}
DefaultSearchDepth == "Basic"

\* st.multiselect("Limit to Domains", [...]): nothing selected by default.
DomainChoices == {{}, {"Tennis"}}

\* st.date_input("Date Range", [datetime(2000, 1, 1), datetime.now()]): the
\* default pair or a pair the user picked.
DateRanges == {"default", "picked"}

\* ------------------------------------------------------------------ state
VARIABLES
    query,              \* st.text_area value
    model,              \* st.selectbox value
    temperature,        \* st.slider value (tenths)
    max_tokens,         \* st.slider value
    search_depth,       \* st.select_slider value
    include_citations,  \* st.checkbox value
    domains,            \* st.multiselect value
    date_range,         \* st.date_input value
    results,            \* st.session_state.results, None while the key is absent
    run,                \* what the last run of the script did and rendered
    file,               \* the downloaded research_results.json, None before
    loaded,             \* json.loads of the downloaded file, None before
    prev                \* history: model and findings of the result that
                        \* st.session_state.results held before its last write

widgets == <<query, model, temperature, max_tokens, search_depth,
             include_citations, domains, date_range>>
vars == <<query, model, temperature, max_tokens, search_depth,
          include_citations, domains, date_range, results, run, file,
          loaded, prev>>

\* ------------------------------------------------------- the result literal
\* relevance is kept in hundredths: 0.95 is 95, 0.82 is 82.
Finding1 ==
    [title |-> "Tennis Tiebreaker Regulations",
     content |-> "The Big 12 Conference employs a specific tiebreaker system in tennis matches. When two players are tied at 6-6 in a set, a tiebreaker game is played to determine the winner of the set. The first player to reach at least 7 points with a margin of 2 points wins the tiebreaker.",
     relevance |-> 95,
     source |-> "Big 12 Tennis Rulebook"]

Finding2 ==
    [title |-> "Match Statistics Analysis",
     content |-> "According to recent match statistics, tiebreakers occur in approximately 22% of Big 12 tennis sets. Teams with higher first-serve percentages tend to win 67% of tiebreakers, suggesting the importance of serve performance in these critical moments.",
     relevance |-> 82,
     source |-> "XII-OS Analytics Database"]

\* datetime.now().isoformat() at instant t: an ISO-8601 text, modelled by its
\* seconds field, two digits.
Digits == <<"0", "1", "2", "3", "4", "5", "6", "7", "8", "9">>
isoformat(t) == <<"T", Digits[((t \div 10) % 10) + 1], Digits[(t % 10) + 1]>>

\* A query stripped of leading and trailing blanks (what the handler does NOT do).
RECURSIVE Strip(_)
Strip(q) ==
    IF q = <<>> THEN q
    ELSE IF Head(q) = " " THEN Strip(Tail(q))
    ELSE IF q[Len(q)] = " " THEN Strip(SubSeq(q, 1, Len(q) - 1))
    ELSE q

\* Variants of the dict literal: the query stripped, no findings, findings
\* chosen by the search depth.
ResearchResultStripped(q, m, t) ==
    [query |-> Strip(q), model |-> m, timestamp |-> isoformat(t),
     findings |-> <<Finding1, Finding2>>]

ResearchResultNoFindings(q, m, t) ==
    [query |-> q, model |-> m, timestamp |-> isoformat(t), findings |-> <<>>]

ResearchResultByDepth(q, m, t) ==
    [query |-> q, model |-> m, timestamp |-> isoformat(t),
     findings |-> IF search_depth = "Basic" THEN <<Finding1>>
                  ELSE <<Finding1, Finding2>>]

\* The dict literal assigned to st.session_state.results.
ResearchResult(q, m, t) ==
    [query |-> q, model |-> m, timestamp |-> isoformat(t),
     findings |-> <<Finding1, Finding2>>]

\* ------------------------------------------------------------ a script run
\* A test that sends every query to the else branch.
NotQueryNever(q) == FALSE

\* Python truthiness of a str: `not query` is True exactly for "".
NotQuery(q) == q = <<>>

\* st.expander(f"{finding['title']} (Relevance: {finding['relevance']})") with
\* its st.markdown(content) and st.caption(f"Source: {source}").
Expander(finding) ==
    [label |-> <<finding.title, " (Relevance: ", finding.relevance, ")">>,
     markdown |-> finding.content,
     caption |-> <<"Source: ", finding.source>>]

\* A run in which st.button("Start Research") returned False: nothing below
\* line 49 is executed but the footer.  event names the interaction that
\* triggered the run, raised the call of the run that raised an exception.
Rendered(ev) ==
    [event |-> ev, warning |-> FALSE, wrote |-> FALSE, success |-> FALSE,
     expanders |-> <<>>, export |-> FALSE, balloons |-> FALSE,
     raised |-> "none", error |-> FALSE, footer |-> TRUE]

\* The Streamlit calls of the try block that may raise.
Faults == {"none", "success", "expander", "download_button"}

\* The try block without its except clause: the exception ends the run.
TryBlockUncaught(q, m, t, fault) ==
    LET r == ResearchResult(q, m, t)
        base == [Rendered("start") EXCEPT !.wrote = TRUE, !.raised = fault]
        shown == [i \in 1..Len(r.findings) |-> Expander(r.findings[i])]
    IN  CASE fault = "success" ->
               [results |-> r, run |-> [base EXCEPT !.footer = FALSE]]
          [] fault = "expander" ->
               [results |-> r,
                run |-> [base EXCEPT !.success = TRUE, !.footer = FALSE]]
          [] fault = "download_button" ->
               [results |-> r,
                run |-> [base EXCEPT !.success = TRUE, !.expanders = shown,
                                     !.footer = FALSE]]
          [] OTHER ->
               [results |-> r,
                run |-> [base EXCEPT !.success = TRUE, !.expanders = shown,
                                     !.export = TRUE]]

\* Lines 55-93: store the result, st.success, the expanders, the download
\* button; `except Exception` turns a raised exception into st.error.  The
\* dict literal of lines 56-74 cannot raise; an exception comes from one of
\* the Streamlit calls after it, and what was rendered before it stays.  The
\* download button, created in this run, returns False in it.
TryBlock(q, m, t, fault) ==
    LET r == ResearchResult(q, m, t)
        base == [Rendered("start") EXCEPT !.wrote = TRUE, !.raised = fault]
        shown == [i \in 1..Len(r.findings) |-> Expander(r.findings[i])]
    IN  CASE fault = "success" ->
               [results |-> r, run |-> [base EXCEPT !.error = TRUE]]
          [] fault = "expander" ->
               [results |-> r,
                run |-> [base EXCEPT !.success = TRUE, !.error = TRUE]]
          [] fault = "download_button" ->
               [results |-> r,
                run |-> [base EXCEPT !.success = TRUE, !.expanders = shown,
                                     !.error = TRUE]]
          [] OTHER ->
               [results |-> r,
                run |-> [base EXCEPT !.success = TRUE, !.expanders = shown,
                                     !.export = TRUE]]

\* The empty-query branch clearing the stored result.
StartResearchClearing(q, m, t, old, fault) ==
    IF NotQuery(q)
    THEN [results |-> None, run |-> [Rendered("start") EXCEPT !.warning = TRUE]]
    ELSE TryBlock(q, m, t, fault)

\* Lines 49-93, the body of `if st.button("Start Research"):`.
StartResearch(q, m, t, old, fault) ==
    IF NotQuery(q)
    THEN [results |-> old, run |-> [Rendered("start") EXCEPT !.warning = TRUE]]
    ELSE TryBlock(q, m, t, fault)

\* ------------------------------------------------------------ JSON export
\* A text is a sequence of units: a unit is one character, or a run of ASCII
\* letters, digits, blanks and punctuation other than the quote and the
\* backslash, which the encoder copies and the decoder reads back unchanged.
QUOTE == "\""
BACKSLASH == "\\"
NEWLINE == "\n"
\* The non-ASCII character U+00E9.
EACUTE == "U+00E9"

\* Characters of the queries the export is checked on.
JsonChars == {"a", "n", QUOTE, BACKSLASH, NEWLINE, EACUTE}
JsonQueries == SeqsUpTo(JsonChars, MaxJsonLen)

\* Python values: str, float (hundredths), list, dict (its items, in order).
PyStr(s) == [t |-> "str", v |-> s]
PyFloat(h) == [t |-> "float", v |-> h]
PyList(xs) == [t |-> "list", v |-> xs]
PyDict(items) == [t |-> "dict", v |-> items]

FindingDict(f) ==
    PyDict(<< <<(<<"title">>), PyStr(<<f.title>>)>>,
              <<(<<"content">>), PyStr(<<f.content>>)>>,
              <<(<<"relevance">>), PyFloat(f.relevance)>>,
              <<(<<"source">>), PyStr(<<f.source>>)>> >>)

\* st.session_state.results as the Python object json.dumps is given.
ResultsDict(r) ==
    PyDict(<< <<(<<"query">>), PyStr(r.query)>>,
              <<(<<"model">>), PyStr(<<r.model>>)>>,
              <<(<<"timestamp">>), PyStr(r.timestamp)>>,
              <<(<<"findings">>),
                PyList([i \in 1..Len(r.findings) |-> FindingDict(r.findings[i])])>> >>)

\* An encoder that leaves the backslash as it is.
EscapeNoBackslash(u) ==
    CASE u = QUOTE -> <<BACKSLASH, QUOTE>>
      [] u = NEWLINE -> <<BACKSLASH, "n">>
      [] u = EACUTE -> <<BACKSLASH, "u", "0", "0", "e", "9">>
      [] OTHER -> <<u>>

\* json.dumps of one character of a str (ensure_ascii is True by default).
Escape(u) ==
    CASE u = QUOTE -> <<BACKSLASH, QUOTE>>
      [] u = BACKSLASH -> <<BACKSLASH, BACKSLASH>>
      [] u = NEWLINE -> <<BACKSLASH, "n">>
      [] u = EACUTE -> <<BACKSLASH, "u", "0", "0", "e", "9">>
      [] OTHER -> <<u>>

RECURSIVE EscapeAll(_)
EscapeAll(s) == IF s = <<>> THEN <<>> ELSE Escape(Head(s)) \o EscapeAll(Tail(s))

EncodeStr(s) == <<QUOTE>> \o EscapeAll(s) \o <<QUOTE>>

\* float.__repr__ of h hundredths, 0 <= h <= 999: "0.95", "0.9", "1.0".
FloatRepr(h) ==
    <<Digits[(h \div 100) + 1], ".", Digits[((h % 100) \div 10) + 1]>>
    \o (IF h % 10 = 0 THEN <<>> ELSE <<Digits[(h % 10) + 1]>>)

\* indent=2: a line break and two blanks per nesting level.
Indent(level) == <<NEWLINE>> \o [i \in 1..(2 * level) |-> " "]

RECURSIVE Encode(_, _), EncodeItems(_, _, _), EncodeElements(_, _, _)
\* The items of a dict from the k-th on, one per line, "key": value.
EncodeItems(items, k, level) ==
    IF k > Len(items) THEN <<>>
    ELSE Indent(level) \o EncodeStr(items[k][1]) \o <<":", " ">>
         \o Encode(items[k][2], level)
         \o (IF k < Len(items) THEN <<",">> ELSE <<>>)
         \o EncodeItems(items, k + 1, level)

EncodeElements(xs, k, level) ==
    IF k > Len(xs) THEN <<>>
    ELSE Indent(level) \o Encode(xs[k], level)
         \o (IF k < Len(xs) THEN <<",">> ELSE <<>>)
         \o EncodeElements(xs, k + 1, level)

Encode(py, level) ==
    CASE py.t = "str" -> EncodeStr(py.v)
      [] py.t = "float" -> FloatRepr(py.v)
      [] py.t = "list" ->
           IF py.v = <<>> THEN <<"[", "]">>
           ELSE <<"[">> \o EncodeElements(py.v, 1, level + 1)
                \o Indent(level) \o <<"]">>
      [] py.t = "dict" ->
           IF py.v = <<>> THEN <<"{", "}">>
           ELSE <<"{">> \o EncodeItems(py.v, 1, level + 1)
                \o Indent(level) \o <<"}">>

\* json.dumps(st.session_state.results, indent=2), the data of the download.
JsonDumps(r) == Encode(ResultsDict(r), 0)

\* ---- json.loads, the reader of the downloaded file
\* A failed parse (json.JSONDecodeError).
DecodeError == [t |-> "error", v |-> <<>>]
Failed(next) == [val |-> DecodeError, next |-> next]
IsFailed(p) == p.val.t = "error"

At(T, i) == IF i >= 1 /\ i <= Len(T) THEN T[i] ELSE "EOF"

IsDigit(u) == \E d \in 1..10 : Digits[d] = u
DigitValue(u) == (CHOOSE d \in 1..10 : Digits[d] = u) - 1

RECURSIVE SkipWs(_, _)
SkipWs(T, i) == IF At(T, i) \in {" ", NEWLINE} THEN SkipWs(T, i + 1) ELSE i

\* The characters of a string from T[j] to the closing quote, unescaped.
RECURSIVE ScanString(_, _, _)
ScanString(T, j, acc) ==
    LET u == At(T, j)
        e == At(T, j + 1)
    IN  CASE u = QUOTE -> [val |-> PyStr(acc), next |-> j + 1]
          [] u = "EOF" \/ u = NEWLINE -> Failed(j)
          [] u = BACKSLASH ->
               CASE e = QUOTE -> ScanString(T, j + 2, Append(acc, QUOTE))
                 [] e = BACKSLASH -> ScanString(T, j + 2, Append(acc, BACKSLASH))
                 [] e = "n" -> ScanString(T, j + 2, Append(acc, NEWLINE))
                 [] e = "u" ->
                      IF <<At(T, j + 2), At(T, j + 3), At(T, j + 4), At(T, j + 5)>>
                           = <<"0", "0", "e", "9">>
                      THEN ScanString(T, j + 6, Append(acc, EACUTE))
                      ELSE Failed(j)
                 [] OTHER -> Failed(j)
          [] OTHER -> ScanString(T, j + 1, Append(acc, u))

ParseString(T, i) ==
    IF At(T, i) = QUOTE THEN ScanString(T, i + 1, <<>>) ELSE Failed(i)

\* digit "." digit [digit], read as hundredths.
ParseNumber(T, i) ==
    IF IsDigit(At(T, i)) /\ At(T, i + 1) = "." /\ IsDigit(At(T, i + 2))
    THEN LET whole == 100 * DigitValue(At(T, i)) + 10 * DigitValue(At(T, i + 2))
         IN  IF IsDigit(At(T, i + 3))
             THEN [val |-> PyFloat(whole + DigitValue(At(T, i + 3))), next |-> i + 4]
             ELSE [val |-> PyFloat(whole), next |-> i + 3]
    ELSE Failed(i)

RECURSIVE ParseValue(_, _), ParseMembers(_, _, _), ParseElements(_, _, _)
\* The members of an object from T[i] on; acc holds those already read.
ParseMembers(T, i, acc) ==
    LET key == ParseString(T, SkipWs(T, i))
    IN  IF IsFailed(key) THEN key
        ELSE LET colon == SkipWs(T, key.next)
             IN  IF At(T, colon) # ":" THEN Failed(colon)
                 ELSE LET val == ParseValue(T, SkipWs(T, colon + 1))
                      IN  IF IsFailed(val) THEN val
                          ELSE LET items == Append(acc, <<key.val.v, val.val>>)
                                   after == SkipWs(T, val.next)
                               IN  CASE At(T, after) = "," ->
                                          ParseMembers(T, after + 1, items)
                                     [] At(T, after) = "}" ->
                                          [val |-> PyDict(items), next |-> after + 1]
                                     [] OTHER -> Failed(after)

ParseElements(T, i, acc) ==
    LET val == ParseValue(T, SkipWs(T, i))
    IN  IF IsFailed(val) THEN val
        ELSE LET xs == Append(acc, val.val)
                 after == SkipWs(T, val.next)
             IN  CASE At(T, after) = "," -> ParseElements(T, after + 1, xs)
                   [] At(T, after) = "]" ->
                        [val |-> PyList(xs), next |-> after + 1]
                   [] OTHER -> Failed(after)

ParseValue(T, i) ==
    LET u == At(T, i)
    IN  CASE u = QUOTE -> ParseString(T, i)
          [] u = "{" ->
               IF At(T, SkipWs(T, i + 1)) = "}"
               THEN [val |-> PyDict(<<>>), next |-> SkipWs(T, i + 1) + 1]
               ELSE ParseMembers(T, i + 1, <<>>)
          [] u = "[" ->
               IF At(T, SkipWs(T, i + 1)) = "]"
               THEN [val |-> PyList(<<>>), next |-> SkipWs(T, i + 1) + 1]
               ELSE ParseElements(T, i + 1, <<>>)
          [] IsDigit(u) -> ParseNumber(T, i)
          [] OTHER -> Failed(i)

\* json.loads(text): one value, then nothing but white space.
JsonLoads(T) ==
    LET p == ParseValue(T, SkipWs(T, 1))
    IN  IF IsFailed(p) THEN DecodeError
        ELSE IF SkipWs(T, p.next) = Len(T) + 1 THEN p.val ELSE DecodeError

\* ---------------------------------------------------------------- actions
\* The first run of a session: default widget values, empty session state.
Init ==
    /\ query = <<>>
    /\ model = DefaultModel
    /\ temperature = DefaultTemperature
    /\ max_tokens = DefaultMaxTokens
    /\ search_depth = DefaultSearchDepth
    /\ include_citations = TRUE
    /\ domains = {}
    /\ date_range = "default"
    /\ results = None
    /\ run = Rendered("load")
    /\ file = None
    /\ loaded = None
    /\ prev = None

\* A widget changed: a re-run in which no button reports a click.
Rerun ==
    /\ run' = Rendered("widget")
    /\ UNCHANGED <<results, prev, file, loaded>>

ChangeQuery ==
    /\ \E q \in Queries \ {query} : query' = q
    /\ Rerun
    /\ UNCHANGED <<model, temperature, max_tokens, search_depth,
                   include_citations, domains, date_range>>

ChangeModel ==
    /\ \E m \in Models \ {model} : model' = m
    /\ Rerun
    /\ UNCHANGED <<query, temperature, max_tokens, search_depth,
                   include_citations, domains, date_range>>

ChangeTemperature ==
    /\ \E v \in Temperatures \ {temperature} : temperature' = v
    /\ Rerun
    /\ UNCHANGED <<query, model, max_tokens, search_depth,
                   include_citations, domains, date_range>>

ChangeMaxTokens ==
    /\ \E v \in MaxTokensValues \ {max_tokens} : max_tokens' = v
    /\ Rerun
    /\ UNCHANGED <<query, model, temperature, search_depth,
                   include_citations, domains, date_range>>

ChangeSearchDepth ==
    /\ \E v \in SearchDepths \ {search_depth} : search_depth' = v
    /\ Rerun
    /\ UNCHANGED <<query, model, temperature, max_tokens,
                   include_citations, domains, date_range>>

ChangeIncludeCitations ==
    /\ include_citations' = ~include_citations
    /\ Rerun
    /\ UNCHANGED <<query, model, temperature, max_tokens, search_depth,
                   domains, date_range>>

ChangeDomains ==
    /\ \E v \in DomainChoices \ {domains} : domains' = v
    /\ Rerun
    /\ UNCHANGED <<query, model, temperature, max_tokens, search_depth,
                   include_citations, date_range>>

ChangeDateRange ==
    /\ \E v \in DateRanges \ {date_range} : date_range' = v
    /\ Rerun
    /\ UNCHANGED <<query, model, temperature, max_tokens, search_depth,
                   include_citations, domains>>

\* A click on "Start Research": the run in which st.button returns True.
ClickStart ==
    \E t \in Instants, fault \in Faults :
        LET out == StartResearch(query, model, t, results, fault)
        IN  /\ results' = out.results
            /\ run' = out.run
            /\ prev' = IF out.run.wrote /\ results # None
                       THEN [model |-> results.model,
                             findings |-> results.findings]
                       ELSE prev
            /\ UNCHANGED <<widgets, file, loaded>>

\* A click on "Export Results as JSON", possible while the button is on the
\* page.  The browser saves the file and the script re-runs; in that run
\* st.button("Start Research") returns False, so line 86 is not reached.
ClickDownload ==
    /\ run.export
    /\ run' = Rendered("download")
    /\ UNCHANGED <<widgets, results, prev, file, loaded>>

\* The browser reloads the page: a new session.
Reload ==
    /\ query' = <<>>
    /\ model' = DefaultModel
    /\ temperature' = DefaultTemperature
    /\ max_tokens' = DefaultMaxTokens
    /\ search_depth' = DefaultSearchDepth
    /\ include_citations' = TRUE
    /\ domains' = {}
    /\ date_range' = "default"
    /\ results' = None
    /\ run' = Rendered("load")
    /\ prev' = None
    /\ UNCHANGED <<file, loaded>>

Next ==
    \/ ChangeQuery
    \/ ChangeModel
    \/ ChangeTemperature
    \/ ChangeMaxTokens
    \/ ChangeSearchDepth
    \/ ChangeIncludeCitations
    \/ ChangeDomains
    \/ ChangeDateRange
    \/ ClickStart
    \/ ClickDownload
    \/ Reload

Spec == Init /\ [][Next]_vars

\* ------------------------------------------------- the export, on its own
\* The page right after a valid submit of any query of JsonQueries: the
\* result is stored and the download button is on the page.
InitJson ==
    /\ query \in JsonQueries \ {<<>>}
    /\ model \in Models
    /\ temperature = DefaultTemperature
    /\ max_tokens = DefaultMaxTokens
    /\ search_depth = DefaultSearchDepth
    /\ include_citations = TRUE
    /\ domains = {}
    /\ date_range = "default"
    /\ \E t \in Instants :
         LET out == StartResearch(query, model, t, None, "none")
         IN  results = out.results /\ run = out.run
    /\ file = None
    /\ loaded = None
    /\ prev = None

\* The browser saves the data the download button was given.
SaveFile ==
    /\ run.export
    /\ file = None
    /\ file' = [text |-> JsonDumps(results)]
    /\ UNCHANGED <<widgets, results, run, loaded, prev>>

\* A reader parses the saved file.
LoadFile ==
    /\ file # None
    /\ loaded = None
    /\ loaded' = JsonLoads(file.text)
    /\ UNCHANGED <<widgets, results, run, file, prev>>

NextJson ==
    \/ SaveFile
    \/ LoadFile

SpecJson == InitJson /\ [][NextJson]_vars

\* ================================================================ claims
\* The page shows the findings and offers the export.
ResultShown == run.export /\ Len(run.expanders) = 2

\* A query that is empty or holds blanks only.
IsBlank(q) == \A i \in 1..Len(q) : q[i] = " "

\* C1 as stated: after a click on Start Research with an empty or
\* whitespace-only query, the warning is shown and the run did not write
\* st.session_state.results (runs in which nothing raised are enough to
\* decide it).
C1_BlankQueryWarns ==
    (run.event = "start" /\ IsBlank(query) /\ run.raised = "none") =>
        (run.warning /\ ~run.wrote)

\* C1 amended: after a click on Start Research with the empty query, the
\* warning is shown, the run did not write st.session_state.results and
\* rendered no result.
C1_EmptyQueryWarns ==
    (run.event = "start" /\ query = <<>>) =>
        /\ run.warning
        /\ ~run.wrote
        /\ ~run.success
        /\ run.expanders = <<>>
        /\ ~run.export

C1_Witness == run.event = "start" /\ query = <<>> /\ run.warning

\* C2: after a click on Start Research with a non-empty query, the stored
\* result has the query as entered, the model selected at the click and
\* exactly the two literal findings, in order.
C2_StoredResult ==
    (run.event = "start" /\ query # <<>>) =>
        /\ run.wrote
        /\ results # None
        /\ results.query = query
        /\ results.model = model
        /\ Len(results.findings) = 2
        /\ results.findings[1] = Finding1
        /\ results.findings[2] = Finding2

C2_Witness ==
    /\ run.event = "start"
    /\ query = <<" ">>
    /\ model = "gpt-4"
    /\ results # None
    /\ results.query = <<" ">>

\* C3 as stated: a valid submit that raises nothing leads to ResultShown, and
\* from ResultShown no widget change, submit or download click leads back to
\* a page without the result; only a reload does.
C3_NoReturnToIdle ==
    [][/\ (run'.event = "start" /\ query' # <<>> /\ ~run'.error) => ResultShown'
       /\ (ResultShown /\ run'.event \in {"widget", "start", "download"}
             /\ ~run'.error) => ResultShown']_vars

\* C4 as stated: the run that handles a click on the download button shows
\* the balloons.
C4_DownloadShowsBalloons == run.event = "download" => run.balloons

\* C5 as stated: the run that handles a click on the download button leaves
\* the stored result, the widget values and what is displayed (findings,
\* export button) as they were.
C5_DownloadChangesNothing ==
    [][run'.event = "download" =>
         /\ results' = results
         /\ widgets' = widgets
         /\ run'.expanders = run.expanders
         /\ run'.export = run.export]_vars

\* C6: a stored result has the same findings as the result it replaced,
\* whatever model and options either was submitted under; it has the four
\* fields query, model, timestamp and findings, of which model is the
\* selected model, query a typed text and timestamp a clock text.
C6_CosmeticOnly ==
    /\ (prev # None /\ results # None) => prev.findings = results.findings
    /\ results # None =>
         /\ DOMAIN results = {"query", "model", "timestamp", "findings"}
         /\ results.model \in Models
         /\ results.query \in Queries
         /\ \E t \in Instants : results.timestamp = isoformat(t)
    /\ (run.event = "start" /\ run.wrote) => results.model = model

C6_Witness ==
    /\ run.event = "start"
    /\ run.wrote
    /\ prev # None
    /\ prev.model = DefaultModel
    /\ results.model = "gpt-3.5-turbo"
    /\ temperature # DefaultTemperature
    /\ max_tokens # DefaultMaxTokens
    /\ search_depth # DefaultSearchDepth
    /\ ~include_citations
    /\ domains # {}
    /\ date_range # "default"

\* C7: whenever a result is stored, its findings are not empty: they are two,
\* the literals, each with a relevance between 0 and 1.
C7_FindingsNonEmpty ==
    results # None =>
        /\ results.findings # <<>>
        /\ Len(results.findings) = 2
        /\ results.findings = <<Finding1, Finding2>>
        /\ \A i \in 1..Len(results.findings) :
               results.findings[i].relevance \in 0..100

C7_Witness ==
    /\ results # None
    /\ run.event = "download"
    /\ Len(results.findings) = 2

\* C8: a run in which a call of the try block raised shows the error and
\* still renders the footer, and the Start Research click after it, when
\* nothing raises, stores and shows the result.
C8_ExceptionCaught ==
    /\ [](run.raised # "none" => (run.error /\ run.footer))
    /\ [][(run.error /\ run'.event = "start" /\ run'.raised = "none"
             /\ query' # <<>>)
           => (run'.wrote /\ run'.success /\ run'.export /\ run'.footer)]_vars

C8_Witness ==
    /\ run.event = "start"
    /\ run.raised = "download_button"
    /\ run.error
    /\ run.footer
    /\ results # None

\* C9: parsing the downloaded JSON text gives the stored result back: the
\* same keys in the same order, the same texts, the same numbers.
C9_RoundTrip == loaded # None => loaded = ResultsDict(results)

C9_Witness ==
    /\ loaded # None
    /\ loaded.t = "dict"
    /\ query = <<BACKSLASH, "n">>

\* C10: a click on Start Research with the empty query leaves
\* st.session_state.results as it was, absent or not.
C10_EmptyQueryKeepsResults ==
    [][(run'.event = "start" /\ query' = <<>>) => results' = results]_vars

C10_Witness ==
    /\ run.event = "start"
    /\ query = <<>>
    /\ run.warning
    /\ results # None
    /\ results.query # <<>>

====
